---- MODULE Spec2Model ----
(***************************************************************************)
(* A model of twisted/mail/relay.py: the relay rules, the DomainQueuer     *)
(* that accepts mail into the relay queue, and the RelayerMixin that       *)
(* drains a batch of queued messages.                                      *)
(*                                                                         *)
(* Strings are sequences of one-character strings.  The queue directory is *)
(* the pair hdr/dat: hdr[k] is the content of the file k-H (NoFile when    *)
(* the file does not exist) and dat[k] tells whether k-D exists.           *)
(***************************************************************************)
EXTENDS Integers, Sequences, FiniteSets, TLC

\* ------------------------------------------------------------------ bounds
MaxKeys == 2       \* base keys the queue may allocate in one behaviour
MaxBatch == 2      \* longest messagePaths list handed to a relayer

Keys == 1..MaxKeys

\* ------------------------------------------------------------------ inputs
None == "None"

\* a file of the queue directory: absent, or present with its bytes
NoFile == [exists |-> FALSE, bytes |-> <<>>]
File(bytes) == [exists |-> TRUE, bytes |-> bytes]

\* a Python value that may be None
PyNone == [some |-> FALSE, v |-> None]
Some(v) == [some |-> TRUE, v |-> v]

\* addresses, as str(user.orig) / str(user.dest) yield them
A_ax == <<"a", "@", "x">>
A_by == <<"b", "@", "y">>
A_a == <<"a">>
A_at == <<"@">>
A_atx == <<"@", "x">>
A_aat == <<"a", "@">>
A_aatat == <<"a", "@", "@">>
A_axby == <<"a", "@", "x", "@", "y">>
A_empty == <<>>

AllAddrs == {A_ax, A_by, A_a, A_at, A_atx, A_aat, A_aatat, A_axby, A_empty}

\* what protocol.transport.getPeer() returns
UnixPeer == [type |-> "UNIXAddress", host |-> None]
Loopback == [type |-> "IPv4Address", host |-> "127.0.0.1"]
Remote == [type |-> "IPv4Address", host |-> "10.0.0.1"]
Loopback2 == [type |-> "IPv4Address", host |-> "127.0.0.2"]
Loopback6 == [type |-> "IPv6Address", host |-> "::1"]

AllPeers == {UnixPeer, Loopback, Remote, Loopback2, Loopback6}

User(orig, dest, peer) == [orig |-> orig, dest |-> dest, peer |-> peer]

\* the users that ask the queue's DomainQueuer for relaying: two that are
\* accepted, one with a malformed recipient and one the rules turn down
QueueUsers == {User(A_ax, A_by, Loopback), User(A_by, A_ax, Loopback),
               User(A_ax, A_a, Loopback), User(A_by, A_by, Remote)}

\* the relayRules argument of DomainQueuer.__init__
AllRules == {"None", "AbstractRelayRules", "DomainQueuerRelayRules"}

\* status codes handed to sentMail
Codes == {199, 200, 299, 300}

\* ------------------------------------------------------------------ state
VARIABLES
    hdr,        \* hdr[k]: content of the file k-H, or NoFile
    dat,        \* dat[k]: the file k-D exists
    n,          \* base keys allocated so far by queue.createNewMessage
    agent,      \* "none": no relayer; "loaded": a relayer was constructed;
                \* "lost": its connection was lost
    messages,   \* RelayerMixin.messages
    names,      \* RelayerMixin.names
    paths,      \* history: the messagePaths the relayer was constructed with
    loaded,     \* history: RelayerMixin.messages as loadMessages left it
    ncb,        \* history: sentMail calls that returned on this relayer
    accepted,   \* history: accepted[k]: <<orig, dest>> once startMessage returned for k, else <<>>
    confirmed,  \* history: keys whose sentMail got a success code and raised no error
    delivered,  \* history: keys whose sentMail got a success code and returned
    openH,      \* keys whose header file has a handle open in the process
    fds,        \* keys whose data file the relayer opened and nothing closed
    last        \* history: the operation that made this state, its input and outcome

vars == <<hdr, dat, n, agent, messages, names, paths, loaded, ncb, accepted,
          confirmed, delivered, openH, fds, last>>

\* ------------------------------------------------------------------ smtp.SUCCESS
SUCCESS == 200..299

\* ------------------------------------------------------------------ pickle
Tok(op, arg) == [op |-> op, arg |-> arg]

RECURSIVE PickleItems(_)
PickleItems(lst) ==
    IF lst = <<>> THEN <<>>
    ELSE <<Tok("STRING", Head(lst)), Tok("APPEND", <<>>)>> \o PickleItems(Tail(lst))

\* pickle.dump(list of strings, file): the bytes written
PickleDump(lst) ==
    <<Tok("MARK", <<>>), Tok("LIST", <<>>)>> \o PickleItems(lst) \o <<Tok("STOP", <<>>)>>

Obj(t, v) == [t |-> t, v |-> v]
Raised(e) == [ok |-> FALSE, err |-> e]
Returned(v) == [ok |-> TRUE, val |-> v]

RECURSIVE PickleRun(_, _)
PickleRun(toks, stack) ==
    IF toks = <<>> THEN Raised("EOFError")
    ELSE LET t == Head(toks)
             rest == Tail(toks)
             top == Len(stack)
         IN CASE t.op = "MARK" -> PickleRun(rest, Append(stack, Obj("mark", <<>>)))
              [] t.op = "LIST" ->
                    IF top > 0 /\ stack[top].t = "mark"
                    THEN PickleRun(rest, [stack EXCEPT ![top] = Obj("list", <<>>)])
                    ELSE Raised("UnpicklingError")
              [] t.op = "STRING" -> PickleRun(rest, Append(stack, Obj("str", t.arg)))
              [] t.op = "APPEND" ->
                    IF top > 1 /\ stack[top - 1].t = "list"
                    THEN PickleRun(rest,
                            [SubSeq(stack, 1, top - 1) EXCEPT ![top - 1] =
                                Obj("list", Append(stack[top - 1].v, stack[top].v))])
                    ELSE Raised("UnpicklingError")
              [] t.op = "STOP" ->
                    IF top > 0 THEN Returned(stack[top].v) ELSE Raised("UnpicklingError")
              [] OTHER -> Raised("UnpicklingError")

\* pickle.load(file) on a file holding bytes
PickleLoad(bytes) == PickleRun(bytes, <<>>)

\* ------------------------------------------------------------------ relay rules
\* AbstractRelayRules.willRelay
AbstractRelayRules_willRelay(address, peer, authorized) == FALSE

\* the rules without the test of the authorized flag
DomainQueuerRelayRules_willRelay_NoAuth(address, peer, authorized) ==
    peer.type = "UNIXAddress" \/ peer.host = "127.0.0.1"

\* DomainQueuerRelayRules.willRelay
DomainQueuerRelayRules_willRelay(address, peer, authorized) ==
    authorized \/ peer.type = "UNIXAddress" \/ peer.host = "127.0.0.1"

\* DomainQueuer.__init__(service, authenticated, relayRules)
DomainQueuer(authenticated, relayRules) ==
    [authed |-> authenticated,
     relayRules |-> IF relayRules = "None" THEN "DomainQueuerRelayRules" ELSE relayRules]

\* DomainQueuer.willRelay
willRelay(q, address, peer) ==
    IF q.relayRules = "DomainQueuerRelayRules"
    THEN DomainQueuerRelayRules_willRelay(address, peer, q.authed)
    ELSE AbstractRelayRules_willRelay(address, peer, q.authed)

\* ------------------------------------------------------------------ addresses
\* the index of the first '@' of s, 0 when s has none
FirstAt(s) ==
    IF \E i \in 1..Len(s) : s[i] = "@"
    THEN CHOOSE i \in 1..Len(s) : s[i] = "@" /\ \A j \in 1..(i - 1) : s[j] # "@"
    ELSE 0

\* s.split('@', 1)
Split1(s) ==
    LET i == FirstAt(s)
    IN IF i = 0 THEN <<s>> ELSE <<SubSeq(s, 1, i - 1), SubSeq(s, i + 1, Len(s))>>

NonEmpty(p) == p # <<>>

\* the parts left as split returned them
FilterNone_Identity(parts) == parts

\* filter(None, parts)
FilterNone(parts) == SelectSeq(parts, NonEmpty)

\* exists() without the test of the two address shapes
exists_NoShapeCheck(q, user) ==
    IF willRelay(q, user.dest, user.peer) THEN "factory" ELSE "SMTPBadRcpt"

\* DomainQueuer.exists: "factory" when it returns the lambda, else the error raised
exists(q, user) ==
    IF willRelay(q, user.dest, user.peer)
    THEN LET orig == FilterNone(Split1(user.orig))
             dest == FilterNone(Split1(user.dest))
         IN IF Len(orig) = 2 /\ Len(dest) = 2 THEN "factory" ELSE "SMTPBadRcpt"
    ELSE "SMTPBadRcpt"

Users(origs, dests, peers) == [orig : origs, dest : dests, peer : peers]
Queuers(auths, rules) == {DomainQueuer(a, r) : a \in auths, r \in rules}

\* ------------------------------------------------------------------ the queue
\* queue.createNewMessage(): a fresh base key with its two artifacts, both empty
createNewMessage ==
    LET k == n + 1
    IN [key |-> k,
        hdr |-> [hdr EXCEPT ![k] = File(<<>>)],
        dat |-> [dat EXCEPT ![k] = TRUE]]

\* the pair pickled recipient first
envelope_Swapped(user) == <<user.dest, user.orig>>

\* a header that lists the recipient twice
envelope_TwoRecipients(user) == <<user.orig, user.dest, user.dest>>

\* the list startMessage pickles: [str(user.orig), str(user.dest)]
envelope(user) == <<user.orig, user.dest>>

\* ------------------------------------------------------------------ the relayer
Fp(k) == [fp |-> k]

\* loadMessages raises e with self.messages = ms and self.names = ns built so far
RaisedAt(e, ms, ns) == [ok |-> FALSE, err |-> e, val |-> [messages |-> ms, names |-> ns]]

\* a loop that does not open the data file of a message
RECURSIVE loadMessages_NoData(_, _, _)
loadMessages_NoData(messagePaths, ms, ns) ==
    IF messagePaths = <<>> THEN Returned([messages |-> ms, names |-> ns])
    ELSE LET message == Head(messagePaths)
         IN IF ~hdr[message].exists THEN RaisedAt("IOError", ms, ns)
            ELSE LET messageContents == PickleLoad(hdr[message].bytes)
                 IN IF ~messageContents.ok THEN RaisedAt(messageContents.err, ms, ns)
                    ELSE loadMessages_NoData(Tail(messagePaths),
                                      Append(ms, Append(messageContents.val, Fp(message))),
                                      Append(ns, message))

\* a loop that passes over a message whose header file is missing
RECURSIVE loadMessages_SkipMissing(_, _, _)
loadMessages_SkipMissing(messagePaths, ms, ns) ==
    IF messagePaths = <<>> THEN Returned([messages |-> ms, names |-> ns])
    ELSE LET message == Head(messagePaths)
         IN IF ~hdr[message].exists
            THEN loadMessages_SkipMissing(Tail(messagePaths), ms, ns)
            ELSE LET messageContents == PickleLoad(hdr[message].bytes)
                 IN IF ~messageContents.ok THEN RaisedAt(messageContents.err, ms, ns)
                    ELSE IF ~dat[message] THEN RaisedAt("IOError", ms, ns)
                    ELSE loadMessages_SkipMissing(Tail(messagePaths),
                                      Append(ms, Append(messageContents.val, Fp(message))),
                                      Append(ns, message))

\* RelayerMixin.loadMessages: the loop over messagePaths, from the state (ms, ns)
RECURSIVE loadMessages(_, _, _)
loadMessages(messagePaths, ms, ns) ==
    IF messagePaths = <<>> THEN Returned([messages |-> ms, names |-> ns])
    ELSE LET message == Head(messagePaths)
         IN IF ~hdr[message].exists THEN RaisedAt("IOError", ms, ns)
            ELSE LET messageContents == PickleLoad(hdr[message].bytes)
                 IN IF ~messageContents.ok THEN RaisedAt(messageContents.err, ms, ns)
                    ELSE IF ~dat[message] THEN RaisedAt("IOError", ms, ns)
                    ELSE loadMessages(Tail(messagePaths),
                                      Append(ms, Append(messageContents.val, Fp(message))),
                                      Append(ns, message))

\* RelayerMixin.getMailFrom
getMailFrom == IF messages = <<>> THEN PyNone ELSE Some(messages[1][1])

\* RelayerMixin.getMailTo
getMailTo == IF messages = <<>> THEN PyNone ELSE Some(<<messages[1][2]>>)

\* the file of the last message of the batch
getMailData_Last == IF messages = <<>> THEN PyNone ELSE Some(messages[Len(messages)][3])

\* RelayerMixin.getMailData
getMailData == IF messages = <<>> THEN PyNone ELSE Some(messages[1][3])

\* the test with no upper end: code >= 200
success_NoUpper(code) == code >= 200

\* the test dropped: the files are removed whatever the code
success_Always(code) == TRUE

\* the test negated: code not in smtp.SUCCESS
success_Negated(code) == code \notin SUCCESS

\* sentMail's test: code in smtp.SUCCESS
success(code) == code \in SUCCESS

\* the del forgotten
delFirst_Keep(lst) == lst

\* del lst[-1]
delFirst_Last(lst) == SubSeq(lst, 1, Len(lst) - 1)

\* the del skipped for the last item left
delFirst_KeepLast(lst) == IF Len(lst) = 1 THEN lst ELSE Tail(lst)

\* del lst[:]
delFirst_All(lst) == <<>>

\* the front item goes to the back of the list
delFirst_Rotate(lst) == IF lst = <<>> THEN lst ELSE Append(Tail(lst), lst[1])

\* del lst[0]
delFirst(lst) == Tail(lst)

\* self.names[-1]
front_Last(lst) == lst[Len(lst)]

\* self.names[0]
front(lst) == lst[1]

\* the dels run although os.remove raised
afterRaise_Advance(lst) == Tail(lst)

\* a list of the relayer when os.remove raises in sentMail: the dels are not reached
afterRaise(lst) == lst

\* a close after the dump with no finally: skipped when pickle.dump raises
closeEnvelope_NoFinally(handles, k, raised) == IF raised THEN handles ELSE handles \ {k}

\* startMessage's finally: envelopeFile.close(), whether pickle.dump raised or not
closeEnvelope(handles, k, raised) == handles \ {k}

Range(seq) == {seq[i] : i \in 1..Len(seq)}

Op(op, arg, out) == [op |-> op, arg |-> arg, out |-> out]

\* the process has no relayer (none was constructed, or the process stopped)
NoAgent ==
    /\ agent' = "none"
    /\ messages' = <<>>
    /\ names' = <<>>
    /\ paths' = <<>>
    /\ loaded' = <<>>
    /\ ncb' = 0

\* ------------------------------------------------------------------ actions
Init ==
    /\ hdr = [k \in Keys |-> NoFile]
    /\ dat = [k \in Keys |-> FALSE]
    /\ n = 0
    /\ agent = "none"
    /\ messages = <<>>
    /\ names = <<>>
    /\ paths = <<>>
    /\ loaded = <<>>
    /\ ncb = 0
    /\ accepted = [k \in Keys |-> <<>>]
    /\ confirmed = {}
    /\ delivered = {}
    /\ openH = {}
    /\ fds = {}
    /\ last = Op("init", None, None)

\* DomainQueuer(authenticated, relayRules).exists(user)
Exists(q, user) ==
    /\ last' = Op("exists", [q |-> q, user |-> user],
                  [willRelay |-> willRelay(q, user.dest, user.peer),
                   result |-> exists(q, user)])
    /\ UNCHANGED <<hdr, dat, n, agent, messages, names, paths, loaded, ncb, accepted,
                   confirmed, delivered, openH, fds>>

\* the factory that q.exists(user) returned is invoked: q.startMessage(user).
\* There is a factory to invoke only for a user exists() did not reject.
\* how = "returned": startMessage returns the message receiver;
\* how = "PicklingError": pickle.dump raises before a byte is written;
\* how = "created": the process stops between createNewMessage and pickle.dump;
\* how = "dumped": the process stops between pickle.dump and envelopeFile.close(),
\*                 the pickle still in the file object's buffer.
\* A process that stops has its handles closed by the system.
StartMessage(q, user, how) ==
    /\ exists(q, user) = "factory"
    /\ n < MaxKeys
    /\ LET new == createNewMessage
           written == how = "returned"
       IN /\ n' = new.key
          /\ dat' = new.dat
          /\ hdr' = IF written
                    THEN [new.hdr EXCEPT ![new.key] = File(PickleDump(envelope(user)))]
                    ELSE new.hdr
          /\ accepted' = IF how = "returned"
                         THEN [accepted EXCEPT ![new.key] = <<user.orig, user.dest>>]
                         ELSE accepted
          /\ openH' = IF how \in {"created", "dumped"} THEN {}
                      ELSE closeEnvelope(openH \cup {new.key}, new.key,
                                         how = "PicklingError")
          /\ last' = Op("startMessage", [key |-> new.key, user |-> user], how)
    /\ IF how \in {"created", "dumped"}
       THEN NoAgent /\ fds' = {}
       ELSE UNCHANGED <<agent, messages, names, paths, loaded, ncb, fds>>
    /\ UNCHANGED <<confirmed, delivered>>

\* SMTPRelayer.__init__ / ESMTPRelayer.__init__ over messagePaths.  Each header
\* file is closed in loadMessages' finally; the data files opened stay open,
\* also when a later file of the list makes loadMessages raise.  fds follows
\* the handles of this relayer only.
Construct(messagePaths) ==
    /\ LET r == loadMessages(messagePaths, <<>>, <<>>)
       IN /\ fds' = Range(r.val.names)
          /\ IF r.ok
             THEN /\ agent' = "loaded"
                  /\ messages' = r.val.messages
                  /\ names' = r.val.names
                  /\ paths' = messagePaths
                  /\ loaded' = r.val.messages
                  /\ ncb' = 0
                  /\ last' = Op("construct", messagePaths, "returned")
             ELSE /\ NoAgent
                  /\ last' = Op("construct", messagePaths, r.err)
    /\ UNCHANGED <<hdr, dat, n, accepted, confirmed, delivered, openH>>

\* the protocol calls getMailFrom, getMailTo and getMailData
Get ==
    /\ agent = "loaded"
    /\ last' = Op("get", None, <<getMailFrom, getMailTo, getMailData>>)
    /\ UNCHANGED <<hdr, dat, n, agent, messages, names, paths, loaded, ncb, accepted,
                   confirmed, delivered, openH, fds>>

\* the relayer's connection is lost with messages left: RelayerMixin defines no
\* connectionLost and nothing of it runs
ConnectionLost ==
    /\ agent = "loaded"
    /\ agent' = "lost"
    /\ last' = Op("connectionLost", None, None)
    /\ UNCHANGED <<hdr, dat, n, messages, names, paths, loaded, ncb, accepted,
                   confirmed, delivered, openH, fds>>

\* RelayerMixin.sentMail(code, ...) on a relayer.
\* how = "none": every os.remove the code calls is carried out;
\* how = "D", "H": the system refuses that os.remove, which raises OSError
\*                 (as os.remove of a missing file does);
\* how = "stop": the process stops between the two os.remove calls.
SentMail(code, how) ==
    /\ agent = "loaded"
    /\ IF names = <<>>
       THEN /\ how = "none"
            /\ last' = Op("sentMail", [code |-> code, key |-> 0], "IndexError")
            /\ UNCHANGED <<hdr, dat, agent, messages, names, paths, loaded, ncb,
                           confirmed, delivered, fds>>
       ELSE LET k == front(names)
                arg == [code |-> code, key |-> names[1]]
                told == IF code \in SUCCESS THEN {names[1]} ELSE {}
            IN IF success(code)
               THEN IF how = "D" \/ ~dat[k]
                    THEN /\ how \in {"D", "none"}
                         /\ last' = Op("sentMail", arg, "OSError")
                         /\ messages' = afterRaise(messages)
                         /\ names' = afterRaise(names)
                         /\ UNCHANGED <<hdr, dat, agent, paths, loaded, ncb, confirmed,
                                        delivered, fds>>
                    ELSE /\ dat' = [dat EXCEPT ![k] = FALSE]
                         /\ IF how = "stop"
                            THEN /\ NoAgent
                                 /\ fds' = {}
                                 /\ confirmed' = confirmed \cup told
                                 /\ last' = Op("sentMail", arg, "stopped")
                                 /\ UNCHANGED <<hdr, delivered>>
                            ELSE IF how = "H" \/ ~hdr[k].exists
                            THEN /\ last' = Op("sentMail", arg, "OSError")
                                 /\ messages' = afterRaise(messages)
                                 /\ names' = afterRaise(names)
                                 /\ UNCHANGED <<hdr, agent, paths, loaded, ncb, confirmed,
                                                delivered, fds>>
                            ELSE /\ hdr' = [hdr EXCEPT ![k] = NoFile]
                                 /\ confirmed' = confirmed \cup told
                                 /\ delivered' = delivered \cup told
                                 /\ messages' = delFirst(messages)
                                 /\ names' = delFirst(names)
                                 /\ ncb' = ncb + 1
                                 /\ last' = Op("sentMail", arg, "returned")
                                 /\ UNCHANGED <<agent, paths, loaded, fds>>
               ELSE /\ how = "none"
                    /\ messages' = delFirst(messages)
                    /\ names' = delFirst(names)
                    /\ ncb' = ncb + 1
                    /\ last' = Op("sentMail", arg, "returned")
                    /\ confirmed' = confirmed \cup told
                    /\ delivered' = delivered \cup told
                    /\ UNCHANGED <<hdr, dat, agent, paths, loaded, fds>>
    /\ UNCHANGED <<n, accepted, openH>>

\* lists of base keys, at most len long
RECURSIVE PathLists(_)
PathLists(len) ==
    IF len = 0 THEN {<<>>}
    ELSE LET shorter == PathLists(len - 1)
         IN shorter \cup {Append(s, k) : s \in {t \in shorter : Len(t) = len - 1},
                                          k \in Keys}

\* the messagePaths a relayer is constructed with: distinct base keys
MessagePaths == {s \in PathLists(MaxBatch) : \A i, j \in 1..Len(s) : s[i] = s[j] => i = j}

\* the queue's DomainQueuer: DomainQueuer(service), not authenticated, default rules
QueueQueuers == Queuers({FALSE}, {"None"})

\* one step of the mail service: a factory is invoked, a relayer is constructed,
\* the relayer's protocol pulls the front message or reports a result, or the
\* relayer's connection is lost
Step(startHows, sentHows) ==
    \/ \E q \in QueueQueuers, user \in QueueUsers, how \in startHows :
          StartMessage(q, user, how)
    \/ \E messagePaths \in MessagePaths : Construct(messagePaths)
    \/ Get
    \/ ConnectionLost
    \/ \E code \in Codes, how \in sentHows : SentMail(code, how)

\* the service on storage that carries out every call; the process may stop
Next == Step({"returned", "created", "dumped"}, {"none", "stop"})

Spec == Init /\ [][Next]_vars

\* the same, on storage that may refuse a pickle.dump or an os.remove
NextFaults ==
    Step({"returned", "PicklingError", "created", "dumped"}, {"none", "D", "H", "stop"})

SpecFaults == Init /\ [][NextFaults]_vars

\* the DomainQueuer alone: exists() and the factories it returns
NextQueue ==
    \/ \E q \in QueueQueuers, user \in QueueUsers : Exists(q, user)
    \/ \E q \in QueueQueuers, user \in QueueUsers :
          \E how \in {"returned", "PicklingError", "created", "dumped"} :
             StartMessage(q, user, how)
    \/ \E messagePaths \in MessagePaths : Construct(messagePaths)

SpecQueue == Init /\ [][NextQueue]_vars

\* the relay rules and exists() alone, over every address shape, peer and rule set
NextRules ==
    \E q \in Queuers(BOOLEAN, AllRules), user \in Users(AllAddrs, AllAddrs, AllPeers) :
       Exists(q, user)

SpecRules == Init /\ [][NextRules]_vars

\* ------------------------------------------------------------------ properties
\* s, split on its first '@', is two non-empty parts
TwoParts(s) ==
    \E i \in 2..(Len(s) - 1) : s[i] = "@" /\ \A j \in 1..(i - 1) : s[j] # "@"

\* a relayer constructed over the one base key k
Fresh(k) == loadMessages(<<k>>, <<>>, <<>>)

\* C1: a step removes the header or the data artifact of a base key only when
\* it is a sentMail call with a success code made while that key is the front
\* item of the relayer's batch; no other operation, and no sentMail with another
\* code, removes an artifact.
C1_Step ==
    \A k \in Keys :
       ((hdr[k].exists /\ ~hdr'[k].exists) \/ (dat[k] /\ ~dat'[k]))
          => /\ agent = "loaded"
             /\ names # <<>>
             /\ names[1] = k
             /\ last'.op = "sentMail"
             /\ last'.arg.key = k
             /\ last'.arg.code \in SUCCESS

C1_RemovedOnlyOnSuccessAtFront == [][C1_Step]_vars

\* the second item of a batch was removed by a success code after the first,
\* reported with a failure code, kept both its artifacts
C1_Witness ==
    /\ last.op = "sentMail"
    /\ last.out = "returned"
    /\ last.arg.code \in SUCCESS
    /\ ncb = 2
    /\ last.arg.key = paths[2]
    /\ ~hdr[paths[2]].exists /\ ~dat[paths[2]]
    /\ hdr[paths[1]].exists /\ dat[paths[1]]

\* C2: when sentMail is called with a success code on a non-empty batch and
\* returns, the data and the header artifact of the front item are gone and the
\* item is off messages and names; for a batch of one item the batch is then
\* empty and getMailFrom returns None.
C2_Step ==
    (/\ last'.op = "sentMail"
     /\ last'.out = "returned"
     /\ last'.arg.code \in SUCCESS
     /\ agent = "loaded"
     /\ names # <<>>)
       => /\ ~hdr'[names[1]].exists
          /\ ~dat'[names[1]]
          /\ names' = Tail(names)
          /\ messages' = Tail(messages)
          /\ names[1] \notin Range(names')
          /\ Len(names) = 1 => (messages' = <<>> /\ ~(getMailFrom').some)

C2_SuccessRemovesAndAdvances == [][C2_Step]_vars

\* a batch of one item after its success code: nothing left, getMailFrom is None
C2_Witness ==
    /\ last.op = "sentMail"
    /\ last.out = "returned"
    /\ last.arg.code \in SUCCESS
    /\ Len(paths) = 1
    /\ messages = <<>>
    /\ ~getMailFrom.some
    /\ ~hdr[paths[1]].exists /\ ~dat[paths[1]]

\* C3: when sentMail is called with a code that is no success code on a
\* non-empty batch, it returns without an error, leaves the artifacts on storage
\* as they are, and takes the front item off the batch for good; a relayer
\* constructed afterwards over that base key loads and holds the same sender,
\* recipient and body.
C3_Step ==
    (/\ last'.op = "sentMail"
     /\ last'.arg.code \notin SUCCESS
     /\ agent = "loaded"
     /\ names # <<>>)
       => /\ last'.out = "returned"
          /\ hdr' = hdr
          /\ dat' = dat
          /\ hdr[names[1]].exists
          /\ dat[names[1]]
          /\ names' = Tail(names)
          /\ messages' = Tail(messages)
          /\ names[1] \notin Range(names')
          /\ Fresh(names[1]).ok
          /\ Fresh(names[1]).val.messages = <<messages[1]>>
          /\ Fresh(names[1]).val.names = <<names[1]>>

C3_FailureKeepsArtifacts == [][C3_Step]_vars

\* a batch of one item after a failure code: the batch is empty, the artifacts
\* are there and a fresh relayer over the key loads the accepted pair
C3_Witness ==
    /\ last.op = "sentMail"
    /\ last.out = "returned"
    /\ last.arg.code \notin SUCCESS
    /\ Len(paths) = 1
    /\ messages = <<>>
    /\ hdr[paths[1]].exists /\ dat[paths[1]]
    /\ Fresh(paths[1]).ok
    /\ Fresh(paths[1]).val.messages = loaded

\* C4: a relayer loaded from the base keys k1..kN exposes them in that order:
\* after i sentMail calls, whatever their codes, messages and names are the
\* items i+1..N as loaded, and getMailFrom, getMailTo and getMailData give the
\* sender and recipient of the header of k(i+1) and the handle of its data file.
C4_InputOrder ==
    agent = "loaded" =>
       /\ ncb <= Len(paths)
       /\ Len(loaded) = Len(paths)
       /\ names = SubSeq(paths, ncb + 1, Len(paths))
       /\ messages = SubSeq(loaded, ncb + 1, Len(loaded))
       /\ \A i \in 1..Len(paths) : loaded[i][3] = Fp(paths[i])
       /\ \A i \in (ncb + 1)..Len(paths) :
             /\ hdr[paths[i]].exists
             /\ PickleLoad(hdr[paths[i]].bytes).ok
             /\ PickleLoad(hdr[paths[i]].bytes).val = <<loaded[i][1], loaded[i][2]>>
       /\ ncb < Len(paths) =>
             /\ getMailFrom = Some(loaded[ncb + 1][1])
             /\ getMailTo = Some(<<loaded[ncb + 1][2]>>)
             /\ getMailData = Some(Fp(paths[ncb + 1]))

\* the getters were called after one sentMail on a batch of two items with
\* different senders, and gave the second
C4_Witness ==
    /\ agent = "loaded"
    /\ last.op = "get"
    /\ Len(paths) = 2
    /\ ncb = 1
    /\ loaded[1][1] # loaded[2][1]
    /\ last.out[1] = Some(loaded[2][1])
    /\ last.out[3] = Some(Fp(paths[2]))

\* C5: a relayer loaded with N items is drained (messages is empty) exactly
\* when N sentMail calls have returned; drained, getMailFrom, getMailTo and
\* getMailData return None, and no later call on this relayer brings an item
\* back.
C5_Inv ==
    agent = "loaded" =>
       /\ ncb <= Len(paths)
       /\ (ncb = Len(paths)) <=> (messages = <<>>)
       /\ messages = <<>> =>
             /\ names = <<>>
             /\ ~getMailFrom.some
             /\ ~getMailTo.some
             /\ ~getMailData.some

C5_Terminal ==
    (agent = "loaded" /\ messages = <<>> /\ last'.op # "construct" /\ agent' = "loaded")
       => (messages' = <<>> /\ names' = <<>> /\ ncb' = ncb)

C5_DrainedAfterN == []C5_Inv /\ [][C5_Terminal]_vars

\* the getters were called on a relayer of two items after two sentMail calls
C5_Witness ==
    /\ agent = "loaded"
    /\ Len(paths) = 2
    /\ ncb = 2
    /\ last.op = "get"
    /\ ~last.out[1].some /\ ~last.out[2].some /\ ~last.out[3].some

\* C6: the process may stop between the storage steps of startMessage or of
\* sentMail.  Whatever happened, every base key whose startMessage returned and
\* for which no success code was received still loads into a fresh relayer with
\* the accepted sender and recipient; and no list of base keys that holds a key
\* whose success code was received loads at all, so that item is never handed
\* out again.
C6_NoLoss ==
    \A k \in Keys :
       (accepted[k] # <<>> /\ k \notin confirmed)
          => /\ Fresh(k).ok
             /\ Fresh(k).val.messages = <<<<accepted[k][1], accepted[k][2], Fp(k)>>>>

C6_NoDuplicate ==
    \A k \in confirmed :
       \A messagePaths \in MessagePaths :
          k \in Range(messagePaths) => ~loadMessages(messagePaths, <<>>, <<>>).ok

C7_DefaultRules ==
    (last.op = "exists" /\ last.arg.q.relayRules = "DomainQueuerRelayRules")
       => (last.out.willRelay <=>
              \/ last.arg.q.authed
              \/ last.arg.user.peer \in {UnixPeer, Loopback})

\* an unauthenticated originator on the loopback host is relayed
C7_Witness ==
    /\ last.op = "exists"
    /\ last.arg.q.relayRules = "DomainQueuerRelayRules"
    /\ ~last.arg.q.authed
    /\ last.arg.user.peer = Loopback
    /\ last.out.willRelay

\* C8: exists(user) returns a factory exactly when the relay rules permit the
\* destination, connection and authenticated flag and both the sender and the
\* recipient, split on the first '@', are two non-empty parts; otherwise it
\* raises SMTPBadRcpt.
C8_ExistsIff ==
    last.op = "exists" =>
       /\ last.out.result \in {"factory", "SMTPBadRcpt"}
       /\ (last.out.result = "factory") <=>
             /\ last.out.willRelay
             /\ TwoParts(last.arg.user.orig)
             /\ TwoParts(last.arg.user.dest)

\* the rules permit, the recipient has nothing after its '@': SMTPBadRcpt
C8_Witness ==
    /\ last.op = "exists"
    /\ last.out.willRelay
    /\ last.arg.user.orig = A_ax
    /\ last.arg.user.dest = A_aat
    /\ last.out.result = "SMTPBadRcpt"

\* C9: exists() changes nothing on storage, whether it rejects or returns a
\* factory; artifacts appear and base keys are allocated only when a factory is
\* invoked; and no header of the queue holds a pair that exists() rejects.
C9_ExistsStep == last'.op = "exists" => (hdr' = hdr /\ dat' = dat /\ n' = n)

C9_CreateStep ==
    (\/ n' # n
     \/ \E k \in Keys : (~hdr[k].exists /\ hdr'[k].exists) \/ (~dat[k] /\ dat'[k]))
       => last'.op = "startMessage"

C9_Queue ==
    \A k \in Keys :
       (hdr[k].exists /\ hdr[k].bytes # <<>>) =>
          /\ PickleLoad(hdr[k].bytes).ok
          /\ \E user \in QueueUsers :
                /\ PickleLoad(hdr[k].bytes).val = <<user.orig, user.dest>>
                /\ TwoParts(user.orig)
                /\ TwoParts(user.dest)
                /\ user.peer = Loopback

C9_RejectIsPure == []C9_Queue /\ [][C9_ExistsStep /\ C9_CreateStep]_vars

\* exists() rejected a user while the queue holds one item, and left it alone
C9_Witness ==
    /\ last.op = "exists"
    /\ last.out.result = "SMTPBadRcpt"
    /\ n = 1
    /\ hdr[1].exists /\ hdr[1].bytes # <<>>
    /\ dat[1]

\* C10: for every pair startMessage accepted, a relayer loaded over the base
\* key of that item holds the accepted sender as its sender and the accepted
\* recipient as its one recipient: getMailFrom gives the sender and getMailTo
\* the list of that one recipient.
C10_RoundTrip ==
    agent = "loaded" =>
       /\ \A i \in 1..Len(names) :
             accepted[names[i]] # <<>> =>
                /\ messages[i][1] = accepted[names[i]][1]
                /\ messages[i][2] = accepted[names[i]][2]
       /\ (messages # <<>> /\ accepted[names[1]] # <<>>) =>
             /\ getMailFrom = Some(accepted[names[1]][1])
             /\ getMailTo = Some(<<accepted[names[1]][2]>>)

\* a@x -> b@y was accepted, loaded, and the getters gave a@x and [b@y]
C10_Witness ==
    /\ agent = "loaded"
    /\ last.op = "get"
    /\ names # <<>>
    /\ accepted[names[1]] = <<A_ax, A_by>>
    /\ last.out[1] = Some(A_ax)
    /\ last.out[2] = Some(<<A_by>>)

\* C11: a message whose sentMail got a success code and returned has neither
\* artifact in any later state, a relayer constructed over it alone raises
\* IOError, and no list of paths that contains it loads.
C11_Gone ==
    \A k \in delivered :
        /\ ~hdr[k].exists
        /\ ~dat[k]
        /\ ~Fresh(k).ok
        /\ Fresh(k).err = "IOError"
        /\ \A messagePaths \in MessagePaths :
               k \in Range(messagePaths) => ~loadMessages(messagePaths, <<>>, <<>>).ok

\* C11: a construction over a list that contains a delivered message raises
\* and leaves no relayer and no message to send.
C11_LoadFails ==
    (last.op = "construct" /\ Range(last.arg) \cap delivered # {})
        => /\ last.out \in {"IOError", "EOFError"}
           /\ agent = "none"
           /\ messages = <<>>
           /\ getMailFrom = PyNone

\* C11: a delivered message stays out of storage, and a relayer constructed
\* over a batch that contains it fails when it loads.
C11_DeliveredStaysGone == C11_Gone /\ C11_LoadFails

C11_Witness ==
    /\ last.op = "construct"
    /\ \E i \in 1..Len(last.arg) : i > 1 /\ last.arg[i] \in delivered
    /\ last.out = "IOError"

\* C12: when startMessage returns the message receiver, and when it raises
\* because pickle.dump raised, the header file handle that createNewMessage
\* opened is closed; the error of the dump is the outcome of the call, and the
\* call that raised accepted no message.  No header handle stays open in any state.
C12_EnvelopeClosed ==
    /\ openH = {}
    /\ (last.op = "startMessage" /\ last.out \in {"returned", "PicklingError"})
           => last.arg.key \notin openH
    /\ (last.op = "startMessage" /\ last.out = "returned")
           => /\ accepted[last.arg.key] # <<>>
              /\ hdr[last.arg.key].bytes # <<>>
    /\ (last.op = "startMessage" /\ last.out = "PicklingError")
           => /\ accepted[last.arg.key] = <<>>
              /\ hdr[last.arg.key] = File(<<>>)

C12_Witness ==
    /\ last.op = "startMessage"
    /\ last.out = "PicklingError"
    /\ last.arg.key = n
    /\ hdr[n].exists
    /\ n \notin openH

\* C13: once the relayer's connection is lost no data file handle of a
\* message left in its batch is open, and a construction that raised
\* part-way leaves no data file handle open.
C13_DataHandlesReleased ==
    /\ agent = "lost" => fds \cap Range(names) = {}
    /\ (last.op = "construct" /\ last.out # "returned") => fds = {}

\* the connection is lost after one result of a batch of two, the data file of
\* the message left still there and still open
C13_Witness ==
    /\ agent = "lost"
    /\ ncb = 1
    /\ Len(names) = 1
    /\ dat[names[1]]
    /\ hdr[names[1]].exists
    /\ names[1] \in fds

\* a base key has both artifacts or neither
Paired(k) == hdr[k].exists <=> dat[k]

\* an operation that ran to its end: it returned or raised
Completed(l) ==
    ~(l.op \in {"startMessage", "sentMail"} /\ l.out \in {"created", "dumped", "stopped"})

\* a sentMail in which os.remove raised
RemoveRaised(l) == l.op = "sentMail" /\ l.out = "OSError"

\* C14 as stated: a completed operation, one that raised included, started
\* with every base key holding both artifacts or neither ends that way.
C14_CompletedKeepsPaired ==
    [][(Completed(last') /\ \A k \in Keys : Paired(k))
          => \A k \in Keys : Paired(k)']_vars

C14_Step ==
    /\ (/\ Completed(last')
        /\ ~RemoveRaised(last')
        /\ \A k \in Keys : Paired(k))
          => \A k \in Keys : Paired(k)'
    /\ \A k \in Keys :
          (Paired(k) /\ ~Paired(k)')
             => /\ last'.op = "sentMail"
                /\ last'.arg.code \in SUCCESS
                /\ last'.arg.key = k
                /\ last'.out \in {"OSError", "stopped"}
                /\ names[1] = k
                /\ hdr'[k].exists
                /\ ~dat'[k]

\* C14: an operation that ends without raising OSError keeps every base key
\* with both artifacts or neither; only a sentMail with a success code that is
\* cut between its two removals (the removal of the header raised, or the
\* process stopped) leaves the front message with its header and no data; no
\* base key ever has data without a header.
C14_PairedButForHeaderRemoval ==
    [](\A k \in Keys : dat[k] => hdr[k].exists) /\ [][C14_Step]_vars

\* the removal of the header raised: the front message has a header and no data
C14_Witness ==
    /\ last.op = "sentMail"
    /\ last.out = "OSError"
    /\ agent = "loaded"
    /\ names # <<>>
    /\ names[1] = last.arg.key
    /\ hdr[names[1]].exists
    /\ ~dat[names[1]]

\* a startMessage call that returned made one new message under the next base
\* key, which held nothing before, and wrote its header before returning
C15_Step ==
    (last'.op = "startMessage" /\ last'.out = "returned" /\ n' # n)
       => LET k == last'.arg.key
              user == last'.arg.user
          IN /\ k = n + 1
             /\ n' = k
             /\ ~hdr[k].exists /\ ~dat[k] /\ accepted[k] = <<>>
             /\ hdr'[k].exists /\ dat'[k]
             /\ PickleLoad(hdr'[k].bytes) = Returned(<<user.orig, user.dest>>)
             /\ \A j \in Keys \ {k} :
                    hdr'[j] = hdr[j] /\ dat'[j] = dat[j] /\ accepted'[j] = accepted[j]

\* the messages in the queue with a written header are those of the calls that
\* returned, each with the one sender and the one recipient of its call
C15_OnePair ==
    \A k \in Keys :
       /\ (hdr[k].exists /\ hdr[k].bytes # <<>>) <=> accepted[k] # <<>>
       /\ accepted[k] # <<>>
             => /\ k <= n
                /\ dat[k]
                /\ PickleLoad(hdr[k].bytes).ok
                /\ Len(PickleLoad(hdr[k].bytes).val) = 2
                /\ PickleLoad(hdr[k].bytes).val = accepted[k]
                /\ Fresh(k).ok
                /\ Len(Fresh(k).val.messages) = 1
                /\ Fresh(k).val.messages[1] = <<accepted[k][1], accepted[k][2], Fp(k)>>

\* C15: each startMessage call that returns creates one message under a base
\* key that held nothing, its header one (sender, recipient) pair written
\* before the call returns; R calls that returned are R messages, none with
\* more than one recipient.
C15_OneItemPerRecipient == []C15_OnePair /\ [][C15_Step]_vars

\* two recipients accepted: two messages
C15_Witness ==
    /\ last.op = "startMessage"
    /\ last.out = "returned"
    /\ n = 2
    /\ accepted[1] # <<>>
    /\ accepted[2] # <<>>
    /\ accepted[1][2] # accepted[2][2]
    /\ hdr[1].bytes # hdr[2].bytes

C16_Step ==
    (last'.op = "sentMail" /\ last'.out = "OSError" /\ agent = "loaded" /\ names # <<>>)
       => LET k == names[1]
          IN /\ last'.arg.code \in SUCCESS
             /\ last'.arg.key = k
             /\ agent' = "loaded"
             /\ messages' = messages
             /\ names' = names
             /\ ncb' = ncb
             /\ (getMailFrom') = getMailFrom
             /\ (getMailTo') = getMailTo
             /\ (getMailData') = getMailData
             /\ delivered' = delivered
             /\ hdr' = hdr
             /\ \A j \in Keys \ {k} : dat'[j] = dat[j]
             /\ dat'[k] # dat[k] => (~dat'[k] /\ hdr'[k].exists)
             /\ (dat[k] /\ dat'[k]) => hdr'[k].exists
             /\ ~(dat'[k] /\ ~hdr'[k].exists)

\* C16: when os.remove raises in a sentMail with a success code, the call
\* raises OSError with messages and names as they were, the same message at
\* the front; when it was the removal of the header that raised, the data
\* file is gone and the header file is still there.
C16_RemoveErrorKeepsBatch == [][C16_Step]_vars

\* the second message of a batch of two: its data removed, the removal of its
\* header raised, and it is still the front message
C16_Witness ==
    /\ last.op = "sentMail"
    /\ last.out = "OSError"
    /\ last.arg.code = 200
    /\ Len(paths) = 2
    /\ ncb = 1
    /\ names = <<paths[2]>>
    /\ getMailData = Some(Fp(paths[2]))
    /\ ~dat[paths[2]]
    /\ hdr[paths[2]].exists

\* messages and names go position by position, and the three getters give the
\* sender, the one recipient and the data file of the message at names[0]
C17_Inv ==
    /\ Len(messages) = Len(names)
    /\ \A i \in 1..Len(messages) :
          /\ Len(messages[i]) = 3
          /\ messages[i][3] = Fp(names[i])
          /\ \E j \in 1..Len(paths) : paths[j] = names[i] /\ loaded[j] = messages[i]
    /\ names = <<>>
          => (getMailFrom = PyNone /\ getMailTo = PyNone /\ getMailData = PyNone)
    /\ names # <<>>
          => /\ getMailFrom = Some(messages[1][1])
             /\ getMailTo.some
             /\ Len(getMailTo.v) = 1
             /\ getMailTo.v[1] = messages[1][2]
             /\ getMailData = Some(Fp(names[1]))

C17_Step ==
    /\ last'.op = "get"
          => /\ UNCHANGED <<hdr, dat, n, agent, messages, names, paths, loaded, ncb,
                            fds, openH>>
             /\ last'.out = <<getMailFrom, getMailTo, getMailData>>
             /\ last'.out = <<getMailFrom', getMailTo', getMailData'>>
    /\ (/\ last'.op = "sentMail"
        /\ last'.out = "returned"
        /\ last'.arg.code \in SUCCESS
        /\ agent = "loaded"
        /\ names # <<>>)
          => LET k == last'.arg.key
             IN /\ getMailData = Some(Fp(k))
                /\ hdr[k].exists /\ ~hdr'[k].exists
                /\ dat[k] /\ ~dat'[k]
                /\ PickleLoad(hdr[k].bytes).val = <<getMailFrom.v, getMailTo.v[1]>>

\* C17: in every state the three getters give the same front message, the one
\* a sentMail with a success code removes; messages and names have the same
\* length and go position by position; getMailTo is a list of one address;
\* calling the getters changes neither the batch nor the queue.
C17_GettersAgree == []C17_Inv /\ [][C17_Step]_vars

\* the getters were called on a batch of two after one result
C17_Witness ==
    /\ last.op = "get"
    /\ Len(paths) = 2
    /\ ncb = 1
    /\ last.out[3] = Some(Fp(paths[2]))
    /\ last.out[1].v # loaded[1][1]

C18_Step ==
    /\ (agent \in {"loaded", "lost"} /\ agent' # "none" /\ last'.op # "construct")
          => /\ paths' = paths
             /\ loaded' = loaded
             /\ Len(names') <= Len(names)
             /\ (names' = names \/ (names # <<>> /\ names' = Tail(names)))
             /\ (messages' = messages
                   \/ (messages # <<>> /\ messages' = Tail(messages)))
             /\ Len(messages') = Len(names')
             /\ (names' # names) <=> ncb' = ncb + 1
    /\ (/\ last'.op = "sentMail"
        /\ last'.out = "returned"
        /\ agent = "loaded"
        /\ names # <<>>)
          => /\ Len(names') = Len(names) - 1
             /\ Len(messages') = Len(messages) - 1
             /\ names' = Tail(names)
             /\ messages' = Tail(messages)
    /\ last'.op = "construct"
          => (names' = <<>> \/ names' = last'.arg)

\* C18: the batch is the one given at construction: no operation on the
\* relayer adds a message or changes the order, the length of the batch never
\* grows, and each sentMail that returns takes exactly the front message off.
C18_BatchFixed ==
    [](Len(names) <= Len(paths) /\ Len(names) + ncb = Len(paths))
        /\ [][C18_Step]_vars

\* a failure code took the first of two messages off the batch
C18_Witness ==
    /\ last.op = "sentMail"
    /\ last.out = "returned"
    /\ last.arg.code = 300
    /\ Len(paths) = 2
    /\ Len(names) = 1
    /\ names[1] = paths[2]
    /\ last.arg.key = paths[1]

C19_Step ==
    (last'.op = "sentMail" /\ agent = "loaded")
       => /\ n' = n
          /\ accepted' = accepted
          /\ paths' = paths \/ agent' = "none"
          /\ names = <<>> => (hdr' = hdr /\ dat' = dat /\ messages' = messages)
          /\ names # <<>> =>
                /\ \A j \in Keys \ {names[1]} : hdr'[j] = hdr[j] /\ dat'[j] = dat[j]
                /\ agent' = "loaded" =>
                      /\ (messages' = messages \/ messages' = Tail(messages))
                      /\ (names' = names \/ names' = Tail(names))
                      /\ \A i \in 2..Len(messages) :
                            \E j \in {i - 1, i} :
                               /\ j <= Len(messages')
                               /\ messages'[j] = messages[i]
                               /\ names'[j] = names[i]

\* C19: a sentMail call, whatever its code and however it ends, changes no
\* artifact of a message other than the front one, in the batch or not, and
\* leaves the sender, the recipient and the data file of every other message
\* of the batch as they were.
C19_OnlyFront == [][C19_Step]_vars

\* a success code removed the first of two messages: the second has its two
\* artifacts and is in the batch as it was loaded
C19_Witness ==
    /\ last.op = "sentMail"
    /\ last.out = "returned"
    /\ last.arg.code = 299
    /\ Len(paths) = 2
    /\ last.arg.key = paths[1]
    /\ ~hdr[paths[1]].exists
    /\ hdr[paths[2]].exists /\ dat[paths[2]]
    /\ messages = <<loaded[2]>>

\* base key k has a header file that unpickles and a data file
Readable(k) == hdr[k].exists /\ PickleLoad(hdr[k].bytes).ok /\ dat[k]

C20_Inv ==
    last.op = "construct"
       => LET messagePaths == last.arg
          IN /\ last.out = "returned"
                   <=> \A i \in 1..Len(messagePaths) : Readable(messagePaths[i])
             /\ last.out = "returned"
                   => /\ agent = "loaded"
                      /\ names = messagePaths
                      /\ Len(messages) = Len(messagePaths)
                      /\ \A i \in 1..Len(messagePaths) :
                            messages[i] =
                               Append(PickleLoad(hdr[messagePaths[i]].bytes).val,
                                      Fp(messagePaths[i]))
                      /\ ncb = 0
                      /\ openH = {}
                      /\ fds = Range(messagePaths)
             /\ last.out # "returned"
                   => /\ last.out \in {"IOError", "EOFError"}
                      /\ agent = "none"
                      /\ messages = <<>>
                      /\ names = <<>>
                      /\ getMailFrom = PyNone
                      /\ getMailTo = PyNone
                      /\ getMailData = PyNone
                      /\ openH = {}
             /\ (\E i \in 1..Len(messagePaths) :
                    ~hdr[messagePaths[i]].exists \/ ~dat[messagePaths[i]])
                   => last.out \in {"IOError", "EOFError"}

\* a construction creates, removes and rewrites no file
C20_Step ==
    last'.op = "construct"
       => /\ hdr' = hdr
          /\ dat' = dat
          /\ n' = n
          /\ accepted' = accepted
          /\ delivered' = delivered

\* C20: a construction returns only when every base key of messagePaths has a
\* header file that loads and a data file, and then the batch is all of
\* messagePaths in its order with every header file closed; when a base key
\* lacks either file the construction raises, there is no relayer and no
\* message to read, and in both cases no file was created, removed or changed.
C20_EagerReadOnlyLoad == []C20_Inv /\ [][C20_Step]_vars

\* the second of two base keys has a header and no data: the construction
\* raised IOError after the first message was loaded
C20_Witness ==
    /\ last.op = "construct"
    /\ last.out = "IOError"
    /\ Len(last.arg) = 2
    /\ Readable(last.arg[1])
    /\ hdr[last.arg[2]].exists
    /\ ~dat[last.arg[2]]
    /\ agent = "none"
====
